---- MODULE Spec2Model ----
(***************************************************************************)
(* Model of the question-answer loop of src/question_monitor.py            *)
(* (QuestionMonitor), of the retrieval and synthesis of src/rag_system.py  *)
(* (NewRAGSystem) and of the index build of src/crawling/make_embedding.py *)
(* (EverytimeRAGIndexBuilder).                                             *)
(*                                                                         *)
(* Five specifications over one state: Spec is the monitor process,        *)
(* RagSpec a NewRAGSystem serving queries, PostSpec one call of            *)
(* NewRAGSystem._post_process_answer, BuildSpec one run of                 *)
(* make_embedding.py, CrawlSpec the comments of one post from              *)
(* extract_comments of src/crawling/get_detail.py to the document text of  *)
(* make_embedding.py.                                                      *)
(*                                                                         *)
(* Korean string literals of the source are written in romanised ASCII     *)
(* (the parser accepts ASCII only); every other string is the source's.    *)
(* In the texts the synthesizer post-processes, a Hangul syllable is       *)
(* written "#", the syllable yo "%", the syllable da "&", and the backtick *)
(* is written "^".                                                         *)
(***************************************************************************)
EXTENDS Integers, Sequences, FiniteSets, TLC

VARIABLES
    table,            \* remote "question" sheet: the rows, in table order
    rag_ready,        \* self.rag_ready
    processed,        \* self.processed_questions: set of key strings
    seenPairs,        \* ghost: the (id, time_stamp) pairs of the rows whose key was added
    pc,               \* position of the process
    new_questions,    \* process_new_questions: the batch being processed
    idx,              \* 1-based position of the current question in the batch
    answer_result,    \* result of generate_answer for the current question
    ragEvent,         \* ghost: what happened inside the synthesizer for the current question
    synthLog,         \* ghost: rows for which generate_answer returned, in order
    inserts,          \* per insert request issued to the "answer" sheet, in order:
                      \* the row it answers and the success the monitor saw
    backup,           \* per line of answer_backup.jsonl, in order: the row it answers
    lastSave,         \* the last save_answer_with_documents call: the request data it
                      \* sent and the lines it appended to answer_backup.jsonl, in full
    lastRead,         \* ghost: outcome of the last read of the question sheet
    seed,             \* ghost: what startup seeding read
    stop,             \* ghost: why and where run_monitor ended
    \* NewRAGSystem
    rag_texts,        \* self.texts; self.faiss_index holds one vector per text
    rag_metadata,     \* self.metadata
    ragPc,            \* position of the caller of the NewRAGSystem
    top_k,            \* the top_k of the last search
    search_result,    \* what the last search_similar_documents call did
    rag_return,       \* what the last generate_rag_answer_with_documents call did
    \* one call of NewRAGSystem._post_process_answer
    raw_text,         \* the argument: what the language model decoded to
    text,             \* the local text
    clean_lines,      \* the local clean_lines
    ppPc,             \* position inside the function
    \* EverytimeRAGIndexBuilder, one run of main
    builder,          \* texts, embeddings and index of the builder (sizes), metadata ids
    buildPc,          \* position of main
    files,            \* the artifact files this run has written
    buildEvent,       \* ghost: the failure that ended the run, if any
    \* get_detail.py, extract_comments of one page, and the text of its post
    soup,             \* the article elements of the page, in source order
    article_pos,      \* how many articles the for loop has taken
    comments,         \* the local comments
    last_parent_author, \* the local last_parent_author: <<>> is None, <<s>> the string s
    post_text,        \* what _create_post_text returned for the post
    crawlPc           \* position of the crawl of the post

monitorVars == <<table, rag_ready, processed, seenPairs, pc, new_questions, idx,
                 answer_result, ragEvent, synthLog, inserts, backup, lastSave,
                 lastRead, seed, stop>>

ragVars == <<rag_texts, rag_metadata, ragPc, top_k, search_result, rag_return>>

postVars == <<raw_text, text, clean_lines, ppPc>>

buildVars == <<builder, buildPc, files, buildEvent>>

crawlVars == <<soup, article_pos, comments, last_parent_author, post_text, crawlPc>>

vars == <<monitorVars, ragVars, postVars, buildVars, crawlVars>>

---------------------------------------------------------------------------
(* Bounds and inputs *)

\* most rows the question sheet holds
MaxRows == 2

\* ids and time stamps are strings, and may hold the character "_"
\* a cell of the "question" column: a string, or a number (a numeric cell of
\* the sheet is served as a JSON number)
StrQuestion == [type |-> "str", text |-> "Class hw"]
IntQuestion == [type |-> "int", text |-> "7"]

Row(id, time_stamp, question) ==
    [id |-> id, question |-> question, time_stamp |-> time_stamp]

\* the rows users submit: three text questions, two of them with the same id,
\* and one numeric question
Rows ==
    { Row("a", "c", StrQuestion), Row("a", "b_c", StrQuestion),
      Row("a_b", "c", StrQuestion), Row("a_b", "b_c", IntQuestion) }

Range(s) == {s[k] : k \in 1..Len(s)}

Min(a, b) == IF a < b THEN a ELSE b

---------------------------------------------------------------------------
(* Python helpers *)

\* sub in s
Contains(s, sub) ==
    \E k \in 1..(Len(s) - Len(sub) + 1) : SubSeq(s, k, k + Len(sub) - 1) = sub

\* s.startswith(prefix)
StartsWith(s, prefix) ==
    Len(s) >= Len(prefix) /\ SubSeq(s, 1, Len(prefix)) = prefix

UpperCase == <<"A", "B", "C", "D", "E", "F", "G", "H", "I", "J", "K", "L", "M",
               "N", "O", "P", "Q", "R", "S", "T", "U", "V", "W", "X", "Y", "Z">>
LowerCase == <<"a", "b", "c", "d", "e", "f", "g", "h", "i", "j", "k", "l", "m",
               "n", "o", "p", "q", "r", "s", "t", "u", "v", "w", "x", "y", "z">>

LowerChar(c) ==
    IF \E k \in 1..Len(UpperCase) : UpperCase[k] = c
    THEN LowerCase[CHOOSE k \in 1..Len(UpperCase) : UpperCase[k] = c]
    ELSE c

RECURSIVE Lower(_)
\* s.lower()
Lower(s) ==
    IF s = "" THEN ""
    ELSE LowerChar(SubSeq(s, 1, 1)) \o Lower(SubSeq(s, 2, Len(s)))

RECURSIVE JoinLines(_)
\* "\n".join(parts)
JoinLines(parts) ==
    IF parts = <<>> THEN ""
    ELSE IF Len(parts) = 1 THEN parts[1]
    ELSE parts[1] \o "\n" \o JoinLines(Tail(parts))

---------------------------------------------------------------------------
(* Text helpers of NewRAGSystem._post_process_answer *)

\* the characters standing for Hangul syllables: any syllable, yo, da
Hangul == {"#", "%", "&"}

\* what \s and str.strip() take for white space
Whitespace == {" ", "\n", "\t"}

\* the backtick, and the fence of a code block
Tick == "^"
Fence == "^^^"

Char(s, k) == SubSeq(s, k, k)

\* c.isalpha()
IsAlpha(c) == c \in Range(UpperCase) \cup Range(LowerCase) \cup Hangul

RECURSIVE Repeat(_, _)
\* s * n
Repeat(s, n) ==
    IF n <= 0 THEN ""
    ELSE IF n = 1 THEN s
    ELSE Repeat(s, n \div 2) \o Repeat(s, n - (n \div 2))

\* s.find(sub, k - 1) + 1: the first place at or after k where sub occurs, 0 if none
Find(s, sub, k) ==
    LET P == {i \in k..(Len(s) - Len(sub) + 1) : SubSeq(s, i, i + Len(sub) - 1) = sub}
    IN IF P = {} THEN 0 ELSE CHOOSE i \in P : \A j \in P : i <= j

RECURSIVE LStripFrom(_, _)
LStripFrom(s, k) ==
    IF k > Len(s) \/ Char(s, k) \notin Whitespace THEN k ELSE LStripFrom(s, k + 1)

RECURSIVE RStripTo(_, _)
RStripTo(s, k) ==
    IF k < 1 \/ Char(s, k) \notin Whitespace THEN k ELSE RStripTo(s, k - 1)

\* s.strip()
Strip(s) == SubSeq(s, LStripFrom(s, 1), RStripTo(s, Len(s)))

RECURSIVE Split(_, _)
\* s.split(sep)
Split(s, sep) ==
    LET i == Find(s, sep, 1) IN
    IF i = 0 THEN <<s>>
    ELSE <<SubSeq(s, 1, i - 1)>> \o Split(SubSeq(s, i + Len(sep), Len(s)), sep)

RECURSIVE JoinWith(_, _)
\* sep.join(parts)
JoinWith(parts, sep) ==
    IF parts = <<>> THEN ""
    ELSE IF Len(parts) = 1 THEN parts[1]
    ELSE parts[1] \o sep \o JoinWith(Tail(parts), sep)

\* keyword.lower() in line.lower(); lower() maps character by character
ContainsLower(line, keyword) ==
    \E k \in 1..(Len(line) - Len(keyword) + 1) :
        Lower(SubSeq(line, k, k + Len(keyword) - 1)) = Lower(keyword)

RECURSIVE RemoveFences(_)
\* line 263: re.sub(r'```[\s\S]*?```', '', text), leftmost and shortest matches
RemoveFences(s) ==
    LET i == Find(s, Fence, 1)
        j == IF i = 0 THEN 0 ELSE Find(s, Fence, i + Len(Fence))
    IN IF j = 0 THEN s
       ELSE SubSeq(s, 1, i - 1) \o RemoveFences(SubSeq(s, j + Len(Fence), Len(s)))

\* mutant of RemoveInline: inline code is left in the text
RemoveInlineSkipped(s) == s

RECURSIVE RemoveInline(_)
\* line 264: re.sub(r'`[^`]*`', '', text)
RemoveInline(s) ==
    LET i == Find(s, Tick, 1)
        j == IF i = 0 THEN 0 ELSE Find(s, Tick, i + 1)
    IN IF j = 0 THEN s
       ELSE SubSeq(s, 1, i - 1) \o RemoveInline(SubSeq(s, j + 1, Len(s)))

\* lines 267-272
programming_keywords ==
    << "import", "def ", "class ", "return", "if __name__",
       "python", "function", "variable", "()", "{", "}",
       "def(", "return(", "import ", "from ", "print(",
       "= [", "= {", "= (", "lambda", "yield" >>

\* line 284
contains_code(line) ==
    \E k \in 1..Len(programming_keywords) : ContainsLower(line, programming_keywords[k])

\* line 287
has_korean(line) == \E k \in 1..Len(line) : Char(line, k) \in Hangul

\* line 289: len([c for c in line if c.isalpha()]) < len(line) * 0.5
MostlyNotLetters(line) ==
    2 * Cardinality({k \in 1..Len(line) : IsAlpha(Char(line, k))}) < Len(line)

RECURSIVE CleanLines(_)
\* lines 277-290: the lines that are kept, stripped
CleanLines(lines) ==
    IF lines = <<>> THEN <<>>
    ELSE LET line == Strip(Head(lines)) IN
         (IF Len(line) < 3 THEN <<>>
          ELSE IF ~contains_code(line) /\ (has_korean(line) \/ MostlyNotLetters(line))
          THEN <<line>>
          ELSE <<>>)
         \o CleanLines(Tail(lines))

RECURSIVE RemoveBrackets(_)
\* line 296: re.sub(r'[(){}\[\]<>]', '', text)
RemoveBrackets(s) ==
    IF Len(s) = 0 THEN ""
    ELSE IF Len(s) = 1
    THEN (IF s \in {"(", ")", "{", "}", "[", "]", "<", ">"} THEN "" ELSE s)
    ELSE LET h == Len(s) \div 2 IN
         RemoveBrackets(SubSeq(s, 1, h)) \o RemoveBrackets(SubSeq(s, h + 1, Len(s)))

RECURSIVE CollapseRange(_, _, _)
\* the characters lo..hi of s after re.sub(r'\s+', ' ', s): the first character
\* of a run of white space becomes one space, the others go
CollapseRange(s, lo, hi) ==
    IF lo > hi THEN ""
    ELSE IF lo = hi
    THEN (IF Char(s, lo) \notin Whitespace THEN Char(s, lo)
          ELSE IF lo > 1 /\ Char(s, lo - 1) \in Whitespace THEN ""
          ELSE " ")
    ELSE LET mid == (lo + hi) \div 2 IN
         CollapseRange(s, lo, mid) \o CollapseRange(s, mid + 1, hi)

\* line 297: re.sub(r'\s+', ' ', text)
CollapseSpaces(s) == CollapseRange(s, 1, Len(s))

\* line 305: the length limit of an answer
AnswerLimit == 400

RECURSIVE FitSentences(_, _)
\* lines 309-313: the sentences that fit, each closed with a period
FitSentences(sentences, result) ==
    IF sentences = <<>> THEN result
    ELSE IF Len(result) + Len(Head(sentences)) + 1 <= AnswerLimit
    THEN FitSentences(Tail(sentences), result \o Head(sentences) \o ".")
    ELSE result

\* lines 305-314
Truncate(s) ==
    IF Len(s) > AnswerLimit
    THEN LET result == FitSentences(Split(s, "."), "") IN
         IF result # "" THEN result ELSE SubSeq(s, 1, AnswerLimit) \o "..."
    ELSE s

\* s.endswith(suffix)
EndsWith(s, suffix) ==
    Len(s) >= Len(suffix)
    /\ SubSeq(s, Len(s) - Len(suffix) + 1, Len(s)) = suffix

\* lines 317-319: the endings are '.', '!', '?', yo, da (and nida, seumnida,
\* which end in da)
CloseSentence(s) ==
    IF \E suffix \in {".", "!", "?", "%", "&"} : EndsWith(s, suffix) THEN s
    ELSE IF Find(SubSeq(s, IF Len(s) > 10 THEN Len(s) - 9 ELSE 1, Len(s)), ".", 1) = 0
    THEN s \o "."
    ELSE s

\* line 257: "gwanryeon jeongboreul chajeul su eopsseumnida."
PostNoInfo == "## ### ## # ###&."
\* line 302: "joesonghamnida. myeonghwakhan dapbyeoneul deurigi eoryeopseumnida.
\* jom deo guchejeogeuro jilmunhae jusigesseoyo?"
PostUnclear == "####&. ### ### ### ####&. # # ##### ### ####%?"

\* what the language model can decode to (after the strip of line 239)
RawTexts ==
    { "",
      "ok",
      "### #### ### ###&.",
      "##### ### ###&.\n^^^\nprint(1)\n^^^\n#### ### ###%",
      "^^^### #### ### ###&",
      "#### ^x^ ### #### ###& ^^^y",
      "### #### def\n#### ### ###&",
      "im(port ### #### ###&",
      "import os\n### #### ### ###&!",
      "This is an English only line\n12345 67890 = 1",
      "  \n \t ",
      "### <b>####</b> ### [1] ###&",
      "def ### ####\n### return ### ###&",
      "#### ### ####& ###",
      "### ####. ### ## yield ###&\n#### ###?",
      Repeat("#", AnswerLimit + 1),
      Repeat("#", AnswerLimit - 1) \o "." \o Repeat("#", 20),
      Repeat(Repeat("#", 149) \o ".", 3),
      Repeat("#### ###&. ", 40) }

---------------------------------------------------------------------------
(* The remote table API as _make_request sees it *)

\* None
None == [type |-> "none"]

\* the JSON values a response body can decode to
JsonValues(rows) ==
    {[type |-> "object", success |-> s, data |-> rows] : s \in {"true", "false", "absent"}}
    \cup {[type |-> "array", len |-> n] : n \in {0, 1}}

\* what requests.get yields: an exception, or a body text
RawResponses(rows) ==
    {[http |-> "error"]}
    \cup {[http |-> "ok", form |-> f] : f \in {"empty", "garbage", "jsonp_garbage"}}
    \cup {[http |-> "ok", form |-> f, json |-> j] :
            f \in {"jsonp", "plain"}, j \in JsonValues(rows)}

\* _make_request: the decoded body, or None
make_request(raw) ==
    IF raw.http = "error" THEN None                \* RequestException
    ELSE IF raw.form = "empty" THEN None           \* if not response_text
    ELSE IF raw.form = "jsonp_garbage" THEN None   \* json.loads raises JSONDecodeError
    ELSE IF raw.form = "jsonp" THEN raw.json       \* response_text[10:-1] decoded
    ELSE IF raw.form = "garbage" THEN None         \* response.json() raises
    ELSE raw.json

\* what _make_request can return for a request whose success data is rows
Responses(rows) == {make_request(raw) : raw \in RawResponses(rows)}

\* bool(data)
Truthy(data) ==
    CASE data.type = "none" -> FALSE
      [] data.type = "object" -> TRUE
      [] data.type = "array" -> data.len > 0

\* data.get raises AttributeError on a value that is no dict
HasGet(data) == data.type = "object"

\* data.get('success', False)
GetSuccess(data) == data.success = "true"

---------------------------------------------------------------------------
(* Dedup *)

\* f"{q.get('id', '')}_{q.get('time_stamp', '')}"
question_id(q) == q.id \o "_" \o q.time_stamp

\* the composite identity of a row
Pair(q) == <<q.id, q.time_stamp>>

\* _load_existing_questions, from the decoded response on
load_existing_questions(data, seen) ==
    IF ~Truthy(data) THEN [raised |-> FALSE, ok |-> FALSE, processed |-> seen]
    ELSE IF ~HasGet(data) THEN [raised |-> TRUE, ok |-> FALSE, processed |-> seen]
    ELSE IF ~GetSuccess(data) THEN [raised |-> FALSE, ok |-> FALSE, processed |-> seen]
    ELSE [raised |-> FALSE, ok |-> TRUE,
          processed |-> seen \cup {question_id(q) : q \in Range(data.data)}]

RECURSIVE ScanNewNoMark(_, _, _)
\* mutant of ScanNew: the key of a new question is not added to the set
ScanNewNoMark(questions, seen, acc) ==
    IF questions = <<>> THEN [new |-> acc, processed |-> seen]
    ELSE LET q == Head(questions) IN
         IF question_id(q) \notin seen
         THEN ScanNewNoMark(Tail(questions), seen, Append(acc, q))
         ELSE ScanNewNoMark(Tail(questions), seen, acc)

RECURSIVE ScanNewMarksLate(_, _, _)
\* mutant of ScanNew: the keys are added only when the scan is over, so a
\* row is compared with the set as it was before the read
ScanNewMarksLate(questions, seen, acc) ==
    IF questions = <<>>
    THEN [new |-> acc, processed |-> seen \cup {question_id(q) : q \in Range(acc)}]
    ELSE LET q == Head(questions) IN
         IF question_id(q) \notin seen
         THEN ScanNewMarksLate(Tail(questions), seen, Append(acc, q))
         ELSE ScanNewMarksLate(Tail(questions), seen, acc)

RECURSIVE ScanNew(_, _, _)
\* the for loop of get_new_questions
ScanNew(questions, seen, acc) ==
    IF questions = <<>> THEN [new |-> acc, processed |-> seen]
    ELSE LET q == Head(questions) IN
         IF question_id(q) \notin seen
         THEN ScanNew(Tail(questions), seen \cup {question_id(q)}, Append(acc, q))
         ELSE ScanNew(Tail(questions), seen, acc)

\* mutant of get_new_questions: a read that is no success starts the set anew
get_new_questions_forgetful(data, seen) ==
    IF Truthy(data) /\ HasGet(data) /\ GetSuccess(data)
    THEN LET r == ScanNew(data.data, seen, <<>>) IN
         [raised |-> FALSE, ok |-> TRUE, new |-> r.new, processed |-> r.processed]
    ELSE [raised |-> FALSE, ok |-> FALSE, new |-> <<>>, processed |-> {}]

\* get_new_questions, from the decoded response on
get_new_questions(data, seen) ==
    IF ~Truthy(data)
    THEN [raised |-> FALSE, ok |-> FALSE, new |-> <<>>, processed |-> seen]
    ELSE IF ~HasGet(data)
    THEN [raised |-> TRUE, ok |-> FALSE, new |-> <<>>, processed |-> seen]
    ELSE IF ~GetSuccess(data)
    THEN [raised |-> FALSE, ok |-> FALSE, new |-> <<>>, processed |-> seen]
    ELSE LET r == ScanNew(data.data, seen, <<>>) IN
         [raised |-> FALSE, ok |-> TRUE, new |-> r.new, processed |-> r.processed]

---------------------------------------------------------------------------
(* The synthesizer: NewRAGSystem.generate_rag_answer_with_documents *)

\* "joesonghamnida. gwanryeon jeongboreul chajeul su eopsseumnida."
RagNoResultsAnswer == "Sorry. No related information could be found."
\* "joesonghamnida. dapbyeon saengseong jung oryuga balsaenghaesseumnida."
RagApology == "Sorry. An error occurred while generating the answer."
\* "jemok eopseum"
NoTitle == "untitled"

\* metadata records as make_embedding.py stores them (nested), and flat ones
NestedMeta(url, title) == [id |-> "post_0", metadata |-> [title |-> title, url |-> url]]

\* what search_similar_documents does: raises, or returns a result list
SearchOutcomes ==
    { [raised |-> TRUE, results |-> <<>>],
      [raised |-> FALSE, results |-> <<>>],
      [raised |-> FALSE,
       results |-> << [text |-> "doc0", distance |-> 1,
                       metadata |-> NestedMeta("everytime.kr/1", "t0")] >>] }

\* what generate_answer_with_llama does: raises, or returns the post-processed text
GenOutcomes ==
    { [raised |-> TRUE, text |-> ""],
      [raised |-> FALSE, text |-> "Generated answer."] }

\* lines 383-403: the link of one search result (<<>> when it has no url)
DocumentLink(result) ==
    LET metadata == result.metadata
        inner == IF "metadata" \in DOMAIN metadata THEN metadata.metadata ELSE metadata
        url == IF "url" \in DOMAIN inner THEN inner.url ELSE ""
        title == IF "title" \in DOMAIN inner THEN inner.title ELSE NoTitle
    IN IF url = "" THEN <<>>
       ELSE << [title |-> title,
                url |-> IF StartsWith(url, "http") THEN url ELSE "https://" \o url,
                similarity_score |-> <<1, 1 + result.distance>>] >>

RECURSIVE DocumentLinks(_)
\* lines 381-403: the for loop over search_results
DocumentLinks(results) ==
    IF results = <<>> THEN <<>>
    ELSE DocumentLink(Head(results)) \o DocumentLinks(Tail(results))

\* mutant of rag_except_handler: the exception reaches the caller
rag_except_propagates == [raised |-> TRUE, answer |-> "", documents |-> <<>>]

\* the except branch of generate_rag_answer_with_documents, lines 414-419:
\* what the caller gets when search or generation raises
rag_except_handler == [raised |-> FALSE, answer |-> RagApology, documents |-> <<>>]

\* generate_rag_answer_with_documents
generate_rag_answer_with_documents(search, gen) ==
    IF search.raised THEN rag_except_handler
    ELSE IF search.results = <<>>
    THEN [raised |-> FALSE, answer |-> RagNoResultsAnswer, documents |-> <<>>]
    ELSE IF gen.raised THEN rag_except_handler
    ELSE [raised |-> FALSE, answer |-> gen.text,
          documents |-> DocumentLinks(search.results)]

---------------------------------------------------------------------------
(* Retrieval: NewRAGSystem.search_similar_documents over the index that      *)
(* make_embedding.py wrote (one IndexFlatL2 vector, one text and one         *)
(* metadata record per post)                                                 *)

\* most posts in the index
MaxDocs == 3
\* the L2 distances of a query to the vectors are 0..MaxDist
MaxDist == 1
\* largest top_k of a direct search call
MaxTopK == 3

\* line 369: the top_k of the synthesizer
RagTopK == 3

\* the distance the index reports for a neighbour it does not have (the
\* largest float): larger than every distance to a vector
FltMax == MaxDist + 1

\* make_embedding.py, _create_post_text: the text of post number k (from 0)
PostText(k) == "post text " \o ToString(k)

\* make_embedding.py, line 82: the url a post was crawled with, "" when the
\* post has none. get_detail.py stores the url as its input file gives it:
\* without scheme, with scheme, or with a host whose name begins with http.
\* Two posts may have the same url.
PostUrls == {"", "everytime.kr/v/1", "https://everytime.kr/v/2", "httpbin.org/3"}

\* make_embedding.py, lines 76-89: the metadata record of post number k
PostMetadata(k, url) ==
    [id |-> "post_" \o ToString(k),
     metadata |-> [title |-> "title " \o ToString(k),
                   url |-> url]]

\* the orders in which the index can return all its vectors: nearest first,
\* vectors at the same distance in any order
SortedOrders(dist) ==
    LET n == Len(dist) IN
    {p \in [1..n -> 1..n] :
        /\ \A a, b \in 1..n : a # b => p[a] # p[b]
        /\ \A a, b \in 1..n : a < b => dist[p[a]] <= dist[p[b]]}

\* faiss_index.search(query_embedding, k), lines 153-155: k distances and k
\* labels (from 0); a neighbour the index does not have is (FltMax, -1)
faiss_search(dist, order, k) ==
    [distances |-> [i \in 1..k |-> IF i <= Len(dist) THEN dist[order[i]] ELSE FltMax],
     indices |-> [i \in 1..k |-> IF i <= Len(dist) THEN order[i] - 1 ELSE -1]]

\* list[idx] raises IndexError outside -len..len-1
PyIndexOk(list, i) == -Len(list) <= i /\ i < Len(list)

\* list[idx]: a negative idx counts from the end
PyIndex(list, i) == IF i >= 0 THEN list[i + 1] ELSE list[Len(list) + i + 1]

\* {}
EmptyDict == <<>>

RECURSIVE SearchLoop(_, _, _, _, _)
\* lines 158-170: the loop over zip(distances[0], indices[0]), from position i on
SearchLoop(found, i, txts, metas, results) ==
    IF i > Len(found.indices) THEN [raised |-> FALSE, results |-> results]
    ELSE LET i_idx == found.indices[i]
             distance == found.distances[i]
         IN IF i_idx < Len(txts)
            THEN IF ~PyIndexOk(txts, i_idx)
                 THEN [raised |-> TRUE, results |-> <<>>]    \* self.texts[idx]
                 ELSE IF i_idx < Len(metas) /\ ~PyIndexOk(metas, i_idx)
                 THEN [raised |-> TRUE, results |-> <<>>]    \* self.metadata[idx]
                 ELSE SearchLoop(found, i + 1, txts, metas,
                        Append(results,
                               [rank |-> i,
                                text |-> PyIndex(txts, i_idx),
                                metadata |-> IF i_idx < Len(metas)
                                             THEN PyIndex(metas, i_idx) ELSE EmptyDict,
                                distance |-> distance,
                                similarity_score |-> <<1, 1 + distance>>]))
            ELSE SearchLoop(found, i + 1, txts, metas, results)

\* search_similar_documents of an initialized system: found is what the index
\* returned for the query
search_similar_documents(txts, metas, found) == SearchLoop(found, 1, txts, metas, <<>>)

---------------------------------------------------------------------------
(* QuestionMonitor.generate_answer *)

\* "joesonghamnida. hyeonjae dapbyeoneul saengseonghal su eopsseumnida. ..."
MonitorApology == "Sorry. An answer cannot be generated right now. Please retry later."

\* _generate_default_answer: the keyword lists are 'gwaje', 'sukje', 'assignment';
\* 'sueop', 'gangui', 'siganpyo', 'class'; 'bokjeon', 'jeongwa', 'boksujeongong';
\* 'isangujo', 'jaryogujo', 'algorijeum'
generate_default_answer(question) ==
    LET question_lower == Lower(question)
        any(keywords) == \E kw \in keywords : Contains(question_lower, kw)
    IN IF any({"gwaje", "sukje", "assignment"})
       THEN "Default answer: assignment."
       ELSE IF any({"sueop", "gangui", "siganpyo", "class"})
       THEN "Default answer: class."
       ELSE IF any({"bokjeon", "jeongwa", "boksujeongong"})
       THEN "Default answer: double major."
       ELSE IF any({"isangujo", "jaryogujo", "algorijeum"})
       THEN "Default answer: major subject."
       ELSE "'" \o SubSeq(question, 1, Min(50, Len(question))) \o "...' thank you for the question."

\* answer.strip() is non-empty (the answers here hold no blank-only text)
NonBlank(answer) == answer # ""

\* generate_answer(question): ready is rag_ready and rag_system
generate_answer(question, ready, search, gen) ==
    IF ready
    THEN LET rag_result == generate_rag_answer_with_documents(search, gen) IN
         IF rag_result.raised
         THEN [answer |-> MonitorApology, documents |-> <<>>]   \* except, lines 228-233
         ELSE IF NonBlank(rag_result.answer)
         THEN [answer |-> rag_result.answer, documents |-> rag_result.documents]
         ELSE [answer |-> generate_default_answer(question), documents |-> <<>>]
    ELSE [answer |-> generate_default_answer(question), documents |-> <<>>]

---------------------------------------------------------------------------
(* Persistence: save_answer_with_documents and _save_answer_locally *)

\* lines 374-382: the URLs of the documents, scheme-prefixed
RECURSIVE DocumentUrls(_)
DocumentUrls(documents) ==
    IF documents = <<>> THEN <<>>
    ELSE LET url == Head(documents).url IN
         (IF url = "" THEN <<>>
          ELSE << IF StartsWith(url, "http") THEN url ELSE "https://" \o url >>)
         \o DocumentUrls(Tail(documents))

\* mutant of AnswerData: the time stamp is the time of the answer
AnswerDataRestamped(question_data, result) ==
    [id |-> question_data.id,
     question |-> question_data.question,
     answer |-> result.answer,
     document |-> JoinLines(DocumentUrls(result.documents)),
     time_stamp |-> "now"]

\* lines 388-394: answer_data
AnswerData(question_data, result) ==
    [id |-> question_data.id,
     question |-> question_data.question,
     answer |-> result.answer,
     document |-> JoinLines(DocumentUrls(result.documents)),
     time_stamp |-> question_data.time_stamp]

\* lines 426-433: backup_data of the except branch
BackupData(question_data, result, error) ==
    [id |-> question_data.id,
     question |-> question_data.question,
     answer |-> result.answer,
     documents |-> result.documents,
     time_stamp |-> question_data.time_stamp,
     error |-> error]

\* _save_answer_locally: one line appended, or (open/write raises) the error
\* is logged and nothing is appended
save_answer_locally(lines, answer_data, writeOk) ==
    IF writeOk THEN Append(lines, answer_data) ELSE lines

\* str(e) of the AttributeError that response_data.get raises on a list
AttributeErrorText == "'list' object has no attribute 'get'"

\* mutant of save_answer_with_documents: the else branch of lines 416-419
\* returns False without the local backup
save_answer_without_backup(question_data, result, response_data, writeOk) ==
    LET answer_data == AnswerData(question_data, result) IN
    IF Truthy(response_data) /\ ~HasGet(response_data)
    THEN [sent |-> answer_data, success |-> FALSE, writeFailed |-> ~writeOk,
          lines |-> save_answer_locally(<<>>,
                        BackupData(question_data, result, AttributeErrorText), writeOk)]
    ELSE IF Truthy(response_data) /\ GetSuccess(response_data)
    THEN [sent |-> answer_data, success |-> TRUE, writeFailed |-> FALSE, lines |-> <<>>]
    ELSE [sent |-> answer_data, success |-> FALSE, writeFailed |-> FALSE, lines |-> <<>>]

\* save_answer_with_documents, from the decoded insert response on: the request
\* data, the return value, the lines appended to the backup log, and whether
\* the write of the backup line failed
save_answer_with_documents(question_data, result, response_data, writeOk) ==
    LET answer_data == AnswerData(question_data, result) IN
    IF Truthy(response_data) /\ ~HasGet(response_data)
    THEN [sent |-> answer_data, success |-> FALSE, writeFailed |-> ~writeOk,
          lines |-> save_answer_locally(<<>>,
                        BackupData(question_data, result, AttributeErrorText), writeOk)]
    ELSE IF Truthy(response_data) /\ GetSuccess(response_data)
    THEN [sent |-> answer_data, success |-> TRUE, writeFailed |-> FALSE, lines |-> <<>>]
    ELSE [sent |-> answer_data, success |-> FALSE, writeFailed |-> ~writeOk,
          lines |-> save_answer_locally(<<>>, answer_data, writeOk)]

---------------------------------------------------------------------------
(* The loop: __init__, run_monitor, process_new_questions *)

RunningPcs == {"check", "begin", "gen", "save", "sleep"}

NoResult == [answer |-> "", documents |-> <<>>]

NoRead == [outcome |-> "none", len |-> 0]

NoSave == [q |-> <<>>, sent |-> <<>>, success |-> FALSE, writeFailed |-> FALSE,
           lines |-> <<>>]

\* mutant of process_new_questions_except: without the try, the exception
\* reaches run_monitor
process_new_questions_no_try == "propagated"

\* process_new_questions, lines 471-472: an exception raised inside the batch
\* is caught and logged, and process_new_questions returns
process_new_questions_except == "caught"

\* mutant of AfterException: the loop checks again at once, without its sleep
AfterExceptionRetriesAtOnce ==
    [pc |-> "check", stop |-> [cause |-> "none", from |-> "none"]]

\* where the loop is after an exception inside process_new_questions:
\* caught there, run_monitor goes on to its sleep; otherwise run_monitor's own
\* except Exception (lines 495-496) ends the loop
AfterException ==
    IF process_new_questions_except = "caught"
    THEN [pc |-> "sleep", stop |-> [cause |-> "none", from |-> "none"]]
    ELSE [pc |-> "stopped", stop |-> [cause |-> "error", from |-> pc]]

\* line 455: question_text[:50] raises TypeError on a value that is no string
LogLineRaises(question_data) == question_data.question.type # "str"

NoSearch == [raised |-> FALSE, results |-> <<>>]

NoRag == [raised |-> FALSE, answer |-> "", documents |-> <<>>]

\* NewRAGSystem.__init__: nothing is loaded
RagInit ==
    /\ rag_texts = <<>>
    /\ rag_metadata = <<>>
    /\ ragPc = "load"
    /\ top_k = 0
    /\ search_result = NoSearch
    /\ rag_return = NoRag

\* no call of _post_process_answer is under way
PostIdle ==
    /\ raw_text = ""
    /\ text = ""
    /\ clean_lines = <<>>
    /\ ppPc = "idle"

\* EverytimeRAGIndexBuilder.__init__, and an output directory this run has
\* not written to
BuildInit ==
    /\ builder = [texts |-> 0, metadata |-> <<>>, calls |-> 0,
                  next |-> 0, embeddings_list |-> 0, index |-> -1]
    /\ buildPc = "start"
    /\ files = {}
    /\ buildEvent = "none"

\* no page is being crawled
CrawlIdle ==
    /\ soup = <<>>
    /\ article_pos = 0
    /\ comments = <<>>
    /\ last_parent_author = <<>>
    /\ post_text = ""
    /\ crawlPc = "idle"

MonitorInit ==
    /\ table = <<>>
    /\ rag_ready \in BOOLEAN
    /\ processed = {}
    /\ seenPairs = {}
    /\ pc = "init"
    /\ new_questions = <<>>
    /\ idx = 1
    /\ answer_result = NoResult
    /\ ragEvent = "none"
    /\ synthLog = <<>>
    /\ inserts = <<>>
    /\ backup = <<>>
    /\ lastSave = NoSave
    /\ lastRead = NoRead
    /\ seed = [ok |-> FALSE, len |-> 0]
    /\ stop = [cause |-> "none", from |-> "none"]

Init == MonitorInit /\ RagInit /\ PostIdle /\ BuildInit /\ CrawlIdle

\* a user appends a row to the question sheet. The monitor sees the sheet only
\* in its two reads (Startup, Fetch), so a row appended while a batch is
\* processed is a row appended during the sleep before the next read
AddQuestion ==
    /\ pc \in {"init", "sleep"}
    /\ Len(table) < MaxRows
    /\ \E q \in Rows : table' = Append(table, q)
    /\ UNCHANGED <<rag_ready, processed, seenPairs, pc, new_questions, idx,
                   answer_result, ragEvent, synthLog, inserts, backup, lastSave,
                   lastRead, seed, stop>>
    /\ UNCHANGED <<ragVars, postVars, buildVars, crawlVars>>

\* QuestionMonitor.__init__: _load_existing_questions, then main calls run_monitor
Startup ==
    /\ pc = "init"
    /\ \E data \in Responses(table) :
         LET r == load_existing_questions(data, processed) IN
         /\ processed' = r.processed
         /\ seenPairs' = IF r.ok THEN {Pair(q) : q \in Range(table)} ELSE seenPairs
         /\ seed' = [ok |-> r.ok, len |-> Len(table)]
         /\ pc' = IF r.raised THEN "crashed" ELSE "check"
    /\ UNCHANGED <<table, rag_ready, new_questions, idx, answer_result, ragEvent,
                   synthLog, inserts, backup, lastSave, lastRead, stop>>
    /\ UNCHANGED <<ragVars, postVars, buildVars, crawlVars>>

\* process_new_questions, lines 442-448: get_new_questions
Fetch ==
    /\ pc = "check"
    /\ \E data \in Responses(table) :
         LET r == get_new_questions(data, processed) IN
         /\ processed' = r.processed
         /\ seenPairs' = seenPairs \cup {Pair(q) : q \in Range(r.new)}
         /\ new_questions' = r.new
         /\ idx' = 1
         /\ lastRead' = [outcome |-> IF r.raised THEN "raised"
                                     ELSE IF r.ok THEN "ok" ELSE "failed",
                         len |-> Len(table)]
         /\ pc' = IF r.raised THEN AfterException.pc
                  ELSE IF r.new = <<>> THEN "sleep" ELSE "begin"
         /\ stop' = IF r.raised THEN AfterException.stop ELSE stop
    /\ lastSave' = NoSave
    /\ UNCHANGED <<table, rag_ready, answer_result, ragEvent, synthLog, inserts,
                   backup, seed>>
    /\ UNCHANGED <<ragVars, postVars, buildVars, crawlVars>>

\* process_new_questions, lines 451-455: the fields and the log line of one question
BeginQuestion ==
    /\ pc = "begin"
    /\ IF LogLineRaises(new_questions[idx])
       THEN /\ pc' = AfterException.pc
            /\ stop' = AfterException.stop
       ELSE /\ pc' = "gen"
            /\ stop' = stop
    /\ lastSave' = NoSave
    /\ UNCHANGED <<table, rag_ready, processed, seenPairs, new_questions, idx,
                   answer_result, ragEvent, synthLog, inserts, backup, lastRead, seed>>
    /\ UNCHANGED <<ragVars, postVars, buildVars, crawlVars>>

\* process_new_questions, line 458: generate_answer
Generate ==
    /\ pc = "gen"
    /\ \E search \in SearchOutcomes, gen \in GenOutcomes :
         /\ answer_result' = generate_answer(new_questions[idx].question.text,
                                             rag_ready, search, gen)
         /\ ragEvent' = IF ~rag_ready THEN "not_ready"
                        ELSE IF search.raised THEN "search_raised"
                        ELSE IF search.results = <<>> THEN "no_results"
                        ELSE IF gen.raised THEN "gen_raised" ELSE "ok"
    /\ synthLog' = Append(synthLog, new_questions[idx])
    /\ pc' = "save"
    /\ UNCHANGED <<table, rag_ready, processed, seenPairs, new_questions, idx,
                   inserts, backup, lastSave, lastRead, seed, stop>>
    /\ UNCHANGED <<ragVars, postVars, buildVars, crawlVars>>

\* process_new_questions, lines 461-469: save_answer_with_documents, then the
\* next question of the batch, or back to run_monitor's sleep
Save ==
    /\ pc = "save"
    /\ \E response_data \in Responses(<<>>), writeOk \in BOOLEAN :
         LET q == new_questions[idx]
             r == save_answer_with_documents(q, answer_result, response_data, writeOk)
         IN /\ inserts' = Append(inserts, [q |-> q, success |-> r.success])
            /\ backup' = backup \o [k \in 1..Len(r.lines) |-> q]
            /\ lastSave' = [q |-> q, sent |-> r.sent, success |-> r.success,
                            writeFailed |-> r.writeFailed, lines |-> r.lines]
    /\ answer_result' = NoResult
    /\ ragEvent' = "none"
    /\ idx' = idx + 1
    /\ pc' = IF idx < Len(new_questions) THEN "begin" ELSE "sleep"
    /\ UNCHANGED <<table, rag_ready, processed, seenPairs, new_questions, synthLog,
                   lastRead, seed, stop>>
    /\ UNCHANGED <<ragVars, postVars, buildVars, crawlVars>>

\* run_monitor, lines 490-491 and 486-488: the sleep, then the next cycle
Sleep ==
    /\ pc = "sleep"
    /\ pc' = "check"
    /\ new_questions' = <<>>     \* the locals of process_new_questions are gone
    /\ idx' = 1
    /\ lastSave' = NoSave
    /\ lastRead' = NoRead
    /\ UNCHANGED <<table, rag_ready, processed, seenPairs, answer_result, ragEvent,
                   synthLog, inserts, backup, seed, stop>>
    /\ UNCHANGED <<ragVars, postVars, buildVars, crawlVars>>

\* run_monitor, lines 493-494: KeyboardInterrupt is raised wherever the process
\* is; no except Exception on the way catches it
Cancel ==
    /\ pc \in RunningPcs
    /\ pc' = "stopped"
    /\ stop' = [cause |-> "cancel", from |-> pc]
    /\ UNCHANGED <<table, rag_ready, processed, seenPairs, new_questions, idx,
                   answer_result, ragEvent, synthLog, inserts, backup, lastSave,
                   lastRead, seed>>
    /\ UNCHANGED <<ragVars, postVars, buildVars, crawlVars>>

Next ==
    \/ AddQuestion
    \/ Startup
    \/ Fetch
    \/ BeginQuestion
    \/ Generate
    \/ Save
    \/ Sleep
    \/ Cancel

Spec == Init /\ [][Next]_vars

\* the steps of the monitor process itself
MonitorStep == Startup \/ Fetch \/ BeginQuestion \/ Generate \/ Save \/ Sleep

\* the process is sequential and every call it makes returns (every remote call
\* has a 30 s timeout, the sleeps are finite): a step that can be taken is taken
FairSpec == Spec /\ WF_vars(MonitorStep)

---------------------------------------------------------------------------
(* A NewRAGSystem serving queries *)

\* load_faiss_index: the artifacts of an index built from n posts
LoadIndex ==
    /\ ragPc = "load"
    /\ \E n \in 0..MaxDocs :
         \E urls \in [1..n -> PostUrls] :
            /\ rag_texts' = [k \in 1..n |-> PostText(k - 1)]
            /\ rag_metadata' = [k \in 1..n |-> PostMetadata(k - 1, urls[k])]
    /\ ragPc' = "ready"
    /\ UNCHANGED <<top_k, search_result, rag_return>>
    /\ UNCHANGED <<monitorVars, postVars, buildVars, crawlVars>>

\* a call search_similar_documents(query, k): the query is at any distances
\* from the vectors of the index
SearchDocuments ==
    /\ ragPc = "ready"
    /\ \E k \in 1..MaxTopK, dist \in [1..Len(rag_texts) -> 0..MaxDist] :
         \E order \in SortedOrders(dist) :
            /\ top_k' = k
            /\ search_result' = search_similar_documents(rag_texts, rag_metadata,
                                                         faiss_search(dist, order, k))
    /\ ragPc' = "searched"
    /\ UNCHANGED <<rag_texts, rag_metadata, rag_return>>
    /\ UNCHANGED <<monitorVars, postVars, buildVars, crawlVars>>

\* a call generate_rag_answer_with_documents(question)
GenerateRagAnswer ==
    /\ ragPc = "ready"
    /\ \E dist \in [1..Len(rag_texts) -> 0..MaxDist], gen \in GenOutcomes :
         \E order \in SortedOrders(dist) :
            LET search == search_similar_documents(rag_texts, rag_metadata,
                                                   faiss_search(dist, order, RagTopK))
            IN /\ top_k' = RagTopK
               /\ search_result' = search
               /\ rag_return' = generate_rag_answer_with_documents(search, gen)
    /\ ragPc' = "answered"
    /\ UNCHANGED <<rag_texts, rag_metadata>>
    /\ UNCHANGED <<monitorVars, postVars, buildVars, crawlVars>>

\* the call has returned; the system waits for the next query
NextQuery ==
    /\ ragPc \in {"searched", "answered"}
    /\ ragPc' = "ready"
    /\ top_k' = 0
    /\ search_result' = NoSearch
    /\ rag_return' = NoRag
    /\ UNCHANGED <<rag_texts, rag_metadata>>
    /\ UNCHANGED <<monitorVars, postVars, buildVars, crawlVars>>

RagNext ==
    \/ LoadIndex
    \/ SearchDocuments
    \/ GenerateRagAnswer
    \/ NextQuery

RagSpec == Init /\ [][RagNext]_vars

---------------------------------------------------------------------------
(* One call of NewRAGSystem._post_process_answer(text) *)

\* the call: text is any output of the language model
PostInit ==
    /\ raw_text \in RawTexts
    /\ text = raw_text
    /\ clean_lines = <<>>
    /\ ppPc = "start"

\* lines 256-260
PostStrip ==
    /\ ppPc = "start"
    /\ IF text = "" \/ Len(Strip(text)) < 3
       THEN text' = PostNoInfo /\ ppPc' = "done"
       ELSE text' = Strip(text) /\ ppPc' = "stripped"
    /\ UNCHANGED <<raw_text, clean_lines>>
    /\ UNCHANGED <<monitorVars, ragVars, buildVars, crawlVars>>

\* line 263
PostRemoveFences ==
    /\ ppPc = "stripped"
    /\ text' = RemoveFences(text)
    /\ ppPc' = "no_fences"
    /\ UNCHANGED <<raw_text, clean_lines>>
    /\ UNCHANGED <<monitorVars, ragVars, buildVars, crawlVars>>

\* line 264
PostRemoveInline ==
    /\ ppPc = "no_fences"
    /\ text' = RemoveInline(text)
    /\ ppPc' = "no_inline"
    /\ UNCHANGED <<raw_text, clean_lines>>
    /\ UNCHANGED <<monitorVars, ragVars, buildVars, crawlVars>>

\* lines 274-290
PostFilterLines ==
    /\ ppPc = "no_inline"
    /\ clean_lines' = CleanLines(Split(text, "\n"))
    /\ ppPc' = "filtered"
    /\ UNCHANGED <<raw_text, text>>
    /\ UNCHANGED <<monitorVars, ragVars, buildVars, crawlVars>>

\* lines 293-298: the text of the kept lines
Cleaned == Strip(CollapseSpaces(RemoveBrackets(JoinWith(clean_lines, " "))))

\* lines 293-302
PostJoin ==
    /\ ppPc = "filtered"
    /\ IF Len(Cleaned) < 10
       THEN text' = PostUnclear /\ ppPc' = "done"
       ELSE text' = Cleaned /\ ppPc' = "joined"
    /\ UNCHANGED <<raw_text, clean_lines>>
    /\ UNCHANGED <<monitorVars, ragVars, buildVars, crawlVars>>

\* lines 305-314
PostTruncate ==
    /\ ppPc = "joined"
    /\ text' = Truncate(text)
    /\ ppPc' = "limited"
    /\ UNCHANGED <<raw_text, clean_lines>>
    /\ UNCHANGED <<monitorVars, ragVars, buildVars, crawlVars>>

\* lines 317-321
PostClose ==
    /\ ppPc = "limited"
    /\ text' = CloseSentence(text)
    /\ ppPc' = "done"
    /\ UNCHANGED <<raw_text, clean_lines>>
    /\ UNCHANGED <<monitorVars, ragVars, buildVars, crawlVars>>

PostNext ==
    \/ PostStrip
    \/ PostRemoveFences
    \/ PostRemoveInline
    \/ PostFilterLines
    \/ PostJoin
    \/ PostTruncate
    \/ PostClose

\* the call is made; the other programs stand still
PostCall == MonitorInit /\ RagInit /\ PostInit /\ BuildInit /\ CrawlIdle

PostSpec == PostCall /\ [][PostNext]_vars

---------------------------------------------------------------------------
(* One run of make_embedding.py: main *)

\* most posts in the input file
MaxPosts == 33

\* process_everytime_data is called at most this often on one builder
MaxCalls == 2

\* line 260: create_embeddings(batch_size=16)
batch_size == 16

\* save_index_and_data writes these files, in this order
ArtifactFiles ==
    <<"faiss_index.bin", "texts.pkl", "metadata.pkl", "embeddings.npy", "config.json">>

\* mutant of create_embeddings_except: the failed batch is skipped
create_embeddings_skip == "skip"

\* create_embeddings, lines 150-152: the exception of a batch is printed and
\* raised again
create_embeddings_except == "raise"

\* main, lines 287-294: every exception ends the run
BuildFails(event) ==
    /\ buildPc' = "failed"
    /\ buildEvent' = event

\* lines 69-89: the records appended for a file of n posts, each written
\* as the number k of its id post_k
PostRecords(n) == [k \in 1..n |-> k - 1]

\* main line 253: process_everytime_data; a caller of the class may call it
\* again before the embedding (builder.calls counts the calls)
ProcessData ==
    /\ buildPc \in {"start", "load_model"}
    /\ builder.calls < MaxCalls
    /\ \/ /\ \E n \in 0..(MaxPosts - builder.texts) :
                builder' = [builder EXCEPT !.texts = @ + n,
                                           !.metadata = @ \o PostRecords(n),
                                           !.calls = @ + 1]
          /\ buildPc' = "load_model"
          /\ UNCHANGED buildEvent
       \/ /\ BuildFails("read_failed")       \* lines 62-64
          /\ UNCHANGED builder
    /\ UNCHANGED files
    /\ UNCHANGED <<monitorVars, ragVars, postVars, crawlVars>>

\* main line 256: load_model
LoadModel ==
    /\ buildPc = "load_model"
    /\ \/ buildPc' = "embed" /\ UNCHANGED buildEvent
       \/ BuildFails("model_failed")         \* lines 42-44
    /\ UNCHANGED <<builder, files>>
    /\ UNCHANGED <<monitorVars, ragVars, postVars, crawlVars>>

\* create_embeddings, lines 145-152: one batch
EmbedBatch ==
    /\ buildPc = "embed"
    /\ builder.next < builder.texts
    /\ \/ /\ builder' = [builder EXCEPT
                           !.embeddings_list = @ + Min(batch_size, builder.texts - builder.next),
                           !.next = @ + batch_size]
          /\ UNCHANGED <<buildPc, buildEvent>>
       \/ IF create_embeddings_except = "raise"
          THEN /\ BuildFails("batch_failed")
               /\ UNCHANGED builder
          ELSE /\ builder' = [builder EXCEPT !.next = @ + batch_size]
               /\ buildEvent' = "batch_failed"
               /\ UNCHANGED buildPc
    /\ UNCHANGED files
    /\ UNCHANGED <<monitorVars, ragVars, postVars, crawlVars>>

\* create_embeddings, line 154, and create_faiss_index: the array of no
\* embeddings has no second dimension, so shape[1] raises IndexError
CreateIndex ==
    /\ buildPc = "embed"
    /\ builder.next >= builder.texts
    /\ IF builder.embeddings_list = 0
       THEN /\ BuildFails("index_failed")
            /\ UNCHANGED builder
       ELSE /\ builder' = [builder EXCEPT !.index = builder.embeddings_list]
            /\ buildPc' = "save"
            /\ UNCHANGED buildEvent
    /\ UNCHANGED files
    /\ UNCHANGED <<monitorVars, ragVars, postVars, crawlVars>>

\* save_index_and_data: the next file is written, or its write raises
SaveFile ==
    /\ buildPc = "save"
    /\ \/ /\ files' = files \cup {ArtifactFiles[Cardinality(files) + 1]}
          /\ buildPc' = IF Cardinality(files) + 1 = Len(ArtifactFiles) THEN "done" ELSE "save"
          /\ UNCHANGED buildEvent
       \/ /\ BuildFails("save_failed")
          /\ UNCHANGED files
    /\ UNCHANGED builder
    /\ UNCHANGED <<monitorVars, ragVars, postVars, crawlVars>>

BuildNext ==
    \/ ProcessData
    \/ LoadModel
    \/ EmbedBatch
    \/ CreateIndex
    \/ SaveFile

BuildSpec == Init /\ [][BuildNext]_vars

---------------------------------------------------------------------------
(* The comments of one post: get_detail.py extract_comments, then            *)
(* make_embedding.py _create_post_text. Between the two the post is written  *)
(* as a JSON line and read back, which keeps the strings and the keys.       *)
(* The Korean words of the text are romanised.                               *)

\* a page has at most this many article elements
MaxArticles == 3

\* the authors of the h3 tags; "" is an article without h3 tag
Authors == {"", "A", "B"}

\* the article elements: has_class is whether the element has a class
\* attribute, class its value; the p tag holds "text", the vote tag "0",
\* there is no time tag
Articles ==
    [has_class : {TRUE}, class : SUBSET {"parent", "child"}, author : Authors]
    \cup [has_class : {FALSE}, class : {{}}, author : Authors]

\* the pages
Soups == UNION {[1..n -> Articles] : n \in 0..MaxArticles}

\* d.get(key, default)
DictGet(d, key, default) == IF key \in DOMAIN d THEN d[key] ELSE default

\* lines 86-92: comment_dict
CommentDict(comment_type, author) ==
    [key \in {"Type", "Author", "Comment", "Timestamp", "Vote Count"} |->
        CASE key = "Type" -> comment_type
          [] key = "Author" -> author
          [] key = "Comment" -> "text"
          [] key = "Timestamp" -> ""
          [] key = "Vote Count" -> "0"]

\* mutant of ExtractArticle: a reply also becomes the last parent author
ExtractArticleReplySets(article, cs, lpa) ==
    LET author == article.author
        comment_type == IF "parent" \in article.class THEN "parent"
                        ELSE IF "child" \in article.class THEN "child" ELSE ""
        parent == IF comment_type # "" THEN <<author>> ELSE lpa
        comment_dict == CommentDict(comment_type, author)
    IN [last_parent_author |-> parent,
        comments |->
           IF comment_type = "" THEN cs
           ELSE IF comment_type = "child" /\ lpa # <<>> /\ lpa[1] # ""
           THEN Append(cs, comment_dict @@ ("Parent Author" :> lpa[1]))
           ELSE Append(cs, comment_dict)]

\* lines 64-104: the body of the for loop for an article that has a class
\* attribute; cs and lpa are comments and last_parent_author before it
ExtractArticle(article, cs, lpa) ==
    LET author == article.author
        comment_type == IF "parent" \in article.class THEN "parent"
                        ELSE IF "child" \in article.class THEN "child" ELSE ""
        parent == IF "parent" \in article.class THEN <<author>> ELSE lpa
        comment_dict == CommentDict(comment_type, author)
    IN [last_parent_author |-> parent,
        comments |->
           IF comment_type = "" THEN cs
           ELSE IF comment_type = "child" /\ parent # <<>> /\ parent[1] # ""
           THEN Append(cs, comment_dict @@ ("Parent Author" :> parent[1]))
           ELSE Append(cs, comment_dict)]

\* make_embedding.py lines 121-123: the number of the comment and its reply label
CommentLabel(comment, comment_idx) ==
    "\ndaetgeul" \o ToString(comment_idx)
    \o (IF DictGet(comment, "Type", "") = "child"
        THEN "(dapgeul to " \o DictGet(comment, "Parent Author", "") \o ")"
        ELSE "")

RECURSIVE CommentLines(_, _)
\* make_embedding.py lines 112-131: the for loop over the comments, from
\* comment number comment_idx on
CommentLines(cs, comment_idx) ==
    IF cs = <<>> THEN ""
    ELSE LET comment == Head(cs)
             author == DictGet(comment, "Author", "")
             comment_timestamp == DictGet(comment, "Timestamp", "")
             vote_count == DictGet(comment, "Vote Count", "0")
         IN CommentLabel(comment, comment_idx)
            \o ": " \o DictGet(comment, "Comment", "")
            \o (IF author # "" THEN " - " \o author ELSE "")
            \o (IF comment_timestamp # "" THEN " (" \o comment_timestamp \o ")" ELSE "")
            \o (IF vote_count # "" /\ vote_count # "0"
                THEN " [chucheon:" \o vote_count \o "]" ELSE "")
            \o CommentLines(Tail(cs), comment_idx + 1)

\* make_embedding.py _create_post_text
create_post_text(post) ==
    "jemok: " \o post.title \o "\nnaeyong: " \o post.detail \o "\n"
    \o (IF post.timestamp # "" THEN "jakseongsigan: " \o post.timestamp \o "\n" ELSE "")
    \o "joayo: " \o post.likes \o ", daetgeulsu: " \o post.comments_count \o "\n"
    \o (IF post.comments # <<>>
        THEN "\n[daetgeuldeul]\n" \o CommentLines(post.comments, 1) ELSE "")

\* get_detail.py lines 120-129: json_object of the page
JsonObject(cs) ==
    [title |-> "title", detail |-> "detail", likes |-> "0", comments_count |-> "0",
     scraps |-> "0", url |-> "everytime.kr/v/1", comments |-> cs, timestamp |-> ""]

\* process_url has the page of one post
CrawlInit ==
    /\ soup \in Soups
    /\ article_pos = 0
    /\ comments = <<>>
    /\ last_parent_author = <<>>
    /\ post_text = ""
    /\ crawlPc = "extract"

\* one iteration of the for loop of extract_comments; article['class'] raises
\* KeyError for an element without class attribute, and process_url returns
\* None for the page (lines 131-133)
NextArticle ==
    /\ crawlPc = "extract"
    /\ article_pos < Len(soup)
    /\ LET article == soup[article_pos + 1] IN
       IF ~article.has_class
       THEN /\ crawlPc' = "failed"
            /\ UNCHANGED <<article_pos, comments, last_parent_author>>
       ELSE LET r == ExtractArticle(article, comments, last_parent_author) IN
            /\ comments' = r.comments
            /\ last_parent_author' = r.last_parent_author
            /\ article_pos' = article_pos + 1
            /\ UNCHANGED crawlPc
    /\ UNCHANGED <<soup, post_text>>
    /\ UNCHANGED <<monitorVars, ragVars, postVars, buildVars>>

\* extract_comments returns and the post is stored
ReturnComments ==
    /\ crawlPc = "extract"
    /\ article_pos = Len(soup)
    /\ crawlPc' = "stored"
    /\ UNCHANGED <<soup, article_pos, comments, last_parent_author, post_text>>
    /\ UNCHANGED <<monitorVars, ragVars, postVars, buildVars>>

\* make_embedding.py line 71: the text of the stored post
CreatePostText ==
    /\ crawlPc = "stored"
    /\ post_text' = create_post_text(JsonObject(comments))
    /\ crawlPc' = "done"
    /\ UNCHANGED <<soup, article_pos, comments, last_parent_author>>
    /\ UNCHANGED <<monitorVars, ragVars, postVars, buildVars>>

CrawlNext ==
    \/ NextArticle
    \/ ReturnComments
    \/ CreatePostText

CrawlCall == MonitorInit /\ RagInit /\ PostIdle /\ BuildInit /\ CrawlInit

CrawlSpec == CrawlCall /\ [][CrawlNext]_vars

---------------------------------------------------------------------------
(* Claims *)

\* the rows for which an insert request was issued
InsertedRows == {inserts[k].q : k \in 1..Len(inserts)}

\* the rows the last successful read returned
Fetched == SubSeq(table, 1, lastRead.len)

RECURSIVE FirstNewByPair(_, _)
\* the first occurrence, in order, of every row whose (id, time_stamp) is not in pairs
FirstNewByPair(rows, pairs) ==
    IF rows = <<>> THEN <<>>
    ELSE IF Pair(Head(rows)) \notin pairs
    THEN <<Head(rows)>> \o FirstNewByPair(Tail(rows), pairs \cup {Pair(Head(rows))})
    ELSE FirstNewByPair(Tail(rows), pairs)

\* C1: a successful read by get_new_questions returns, in table order, the
\* first occurrence of every fetched row whose (id, time_stamp) is not in the
\* Processed-Question Set when the call starts, and no other row.
C1_NewByCompositeIdentity ==
    [][(pc = "check" /\ lastRead'.outcome = "ok")
         => new_questions' = FirstNewByPair(table, seenPairs)]_vars

\* C2: two rows are the same question exactly when their ids are equal and
\* their time stamps are equal, so every fetched row whose (id, time_stamp)
\* differs from the others is recognised as a question of its own.
C2_IdentityIsThePair ==
    lastRead.outcome = "ok" =>
        /\ \A q1, q2 \in Range(Fetched) :
              (question_id(q1) = question_id(q2)) <=> (Pair(q1) = Pair(q2))
        /\ \A q \in Range(Fetched) : Pair(q) \in seenPairs

\* C3: when the synthesis of a question starts, the identity of every question
\* discovered in the same fetch is already in the Processed-Question Set.
C3_MarkedBeforeProcessing ==
    pc = "gen" =>
        \A k \in 1..Len(new_questions) : question_id(new_questions[k]) \in processed

C3_Witness == pc = "gen" /\ Len(new_questions) >= 2 /\ idx = 1

\* C4: seeding synthesizes and inserts nothing, and a row that is in the
\* question sheet when the process starts is never synthesized or inserted by
\* a later poll cycle.
C4_SeededRowsNeverProcessed ==
    /\ pc = "init" => (synthLog = <<>> /\ inserts = <<>> /\ backup = <<>>)
    /\ pc # "init" =>
          \A k \in 1..seed.len :
              table[k] \notin Range(synthLog) /\ table[k] \notin InsertedRows

\* C5: every question of a batch whose own fields are usual is synthesized and
\* gets a persistence attempt, whatever the rows before it hold.
C5_BatchNeverAborted ==
    (pc = "sleep" /\ lastRead.outcome = "ok") =>
        \A k \in 1..Len(new_questions) :
            new_questions[k].question.type = "str" =>
                new_questions[k] \in Range(synthLog) /\ new_questions[k] \in InsertedRows

\* a payload carries the id and the time stamp of the row
Carries(payload, q) == payload.id = q.id /\ payload.time_stamp = q.time_stamp

C7_PayloadKeepsIdentity ==
    lastSave.q # <<>> =>
        /\ Carries(lastSave.sent, lastSave.q)
        /\ \A k \in 1..Len(lastSave.lines) : Carries(lastSave.lines[k], lastSave.q)

C7_Witness ==
    /\ lastSave.q # <<>> /\ lastSave.lines # <<>>
    /\ "error" \in DOMAIN lastSave.lines[1]
    /\ lastSave.q.time_stamp = "b_c"

\* C8: a cancellation does not interrupt the question being synthesized or
\* persisted: when the loop has ended, no synthesis was cut short and every
\* synthesized question got its persistence attempt.
C8_CooperativeCancel ==
    pc = "stopped" =>
        /\ stop.from # "gen"
        /\ \A k \in 1..Len(synthLog) : synthLog[k] \in InsertedRows

\* a failure of the current poll cycle is on record: a failed or malformed
\* read, an aborted batch, a generation failure, a persistence failure
Failed ==
    \/ lastRead.outcome \in {"failed", "raised"}
    \/ (pc = "sleep" /\ idx <= Len(new_questions))
    \/ ragEvent \in {"search_raised", "gen_raised"}
    \/ (lastSave.q # <<>> /\ ~lastSave.success)

\* C9: only a cancellation ends the loop, and after a failed read, a malformed
\* response, a generation failure or a persistence failure the loop reaches
\* the next poll cycle (unless it is cancelled first).
C9_OnlyCancelEndsLoop ==
    /\ [](pc = "stopped" => stop.cause = "cancel")
    /\ ((pc \in RunningPcs /\ Failed) ~> (pc = "check" \/ pc = "stopped"))

C9_Witness == pc = "check" /\ Len(backup) = 2 /\ Len(synthLog) = 2

\* C10: when search or generation raises, generate_rag_answer_with_documents
\* raises nothing and returns the apology with an empty document list.
C10_SynthesizerNeverRaises ==
    (pc = "save" /\ ragEvent \in {"search_raised", "gen_raised"}) =>
        answer_result = [answer |-> RagApology, documents |-> <<>>]

C10_Witness == pc = "save" /\ ragEvent = "gen_raised"

\* C11: a search on an empty index (no vector, no text) raises nothing and
\* returns an empty result sequence.
C11_EmptyIndexEmptyResult ==
    (ragPc = "searched" /\ rag_texts = <<>>) =>
        (~search_result.raised /\ search_result.results = <<>>)

\* the distances never decrease along the results
NonDecreasing(results) ==
    \A a, b \in 1..Len(results) : a < b => results[a].distance <= results[b].distance

\* C12: for every query and every index size, also one smaller than top_k,
\* search_similar_documents returns (it does not raise) at most top_k
\* results, and the distances never decrease along them.
C12_AtMostTopKSorted ==
    ragPc = "searched" =>
        /\ ~search_result.raised
        /\ Len(search_result.results) <= top_k
        /\ NonDecreasing(search_result.results)

\* C13: the document list of the synthesizer has no more entries than the
\* index has documents, and its entries refer to distinct documents.
C13_DocumentsWithinIndex ==
    ragPc = "answered" =>
        /\ Len(rag_return.documents) <= Len(rag_texts)
        /\ \A a, b \in 1..Len(rag_return.documents) :
              a # b => rag_return.documents[a].title # rag_return.documents[b].title

\* C14: when the cleaned text is longer than 400 characters, the result of
\* _post_process_answer has at most 400 characters and ends in a period, an
\* exclamation mark or a question mark.
C14_LongAnswerCut ==
    (ppPc = "done" /\ Len(Cleaned) > AnswerLimit) =>
        /\ Len(text) <= AnswerLimit
        /\ \E mark \in {".", "!", "?"} : EndsWith(text, mark)

\* C15: the result of _post_process_answer contains none of the programming
\* keywords, compared without regard to case.
C15_NoProgrammingKeyword ==
    ppPc = "done" => ~contains_code(text)

\* C16: when the raw output holds a code fence (closed or not), the result of
\* _post_process_answer holds no code fence.
C16_NoFenceLeft ==
    (ppPc = "done" /\ Find(raw_text, Fence, 1) # 0) => Find(text, Fence, 1) = 0

\* an unclosed fence whose line is kept
C16_Witness ==
    /\ ppPc = "done"
    /\ Find(raw_text, Fence, 1) # 0
    /\ Find(raw_text, Fence, Find(raw_text, Fence, 1) + Len(Fence)) = 0
    /\ Find(text, Tick, 1) # 0

\* C17: a response of the remote table that is empty, is no JSON or is JSON
\* without a true success flag (also JSON that is no object) makes no caller
\* raise: startup does not crash, the read of a poll cycle raises nothing.
C17_BadResponseIsAFailedCall ==
    /\ pc # "crashed"
    /\ lastRead.outcome # "raised"

\* C18: when the embedding of a batch fails, the run writes no artifact file,
\* and whatever the run writes belongs to an index that holds one vector for
\* every text.
C18_BuildFailFast ==
    /\ buildEvent = "batch_failed" => files = {}
    /\ files # {} =>
          (builder.index = builder.texts /\ builder.embeddings_list = builder.texts)

\* the second batch fails after the first was embedded
C18_Witness ==
    buildPc = "failed" /\ buildEvent = "batch_failed" /\ builder.embeddings_list = batch_size

\* C19: no step removes an identity from the Processed-Question Set.
C19_ProcessedOnlyGrows == [][processed \subseteq processed']_vars

\* a failed read leaves a set that holds identities
C19_Witness == lastRead.outcome = "failed" /\ Cardinality(processed) >= 2

\* C20: the line written to the backup log after a failed insert holds the
\* whole answer payload and the error message that caused the fallback.
C20_BackupLineHasError ==
    (lastSave.q # <<>> /\ ~lastSave.success) =>
        \A k \in 1..Len(lastSave.lines) :
            /\ "error" \in DOMAIN lastSave.lines[k]
            /\ {"id", "question", "answer", "time_stamp"} \subseteq DOMAIN lastSave.lines[k]

\* C21: without a ready RAG system every newly discovered question is still
\* processed: it is answered with its non-empty default answer and an empty
\* document list, and the answer gets a persistence attempt.
C21_DegradedModeAnswersAll ==
    ~rag_ready =>
        /\ pc = "save" =>
              /\ answer_result.answer =
                    generate_default_answer(new_questions[idx].question.text)
              /\ answer_result.answer # ""
              /\ answer_result.documents = <<>>
        /\ (pc = "sleep" /\ lastRead.outcome = "ok") =>
              \A k \in 1..Len(new_questions) :
                  new_questions[k] \in Range(synthLog) /\ new_questions[k] \in InsertedRows

\* C22 as stated: the fetching state is entered only from the sleep.
C22_EveryFetchAfterSleep == [][pc' = "check" => pc = "sleep"]_vars

\* C22 amended: the first fetch follows startup directly, with no sleep
\* before it; every other fetch follows a poll-interval sleep.
C22_FetchAfterStartupOrSleep ==
    [][/\ pc' = "check" => pc \in {"init", "sleep"}
       /\ (pc = "init" /\ pc' # "init") => pc' \in {"check", "crashed"}]_vars

\* a second cycle's fetch is due after a batch was processed
C22_Witness == pc = "check" /\ Len(inserts) >= 1 /\ lastRead = NoRead

\* a failed read ends its poll cycle: no second read, no insert before the sleep
FailedReadEndsCycle ==
    (pc = "check" /\ lastRead'.outcome \in {"failed", "raised"}) =>
        (pc' = "sleep" /\ inserts' = inserts /\ backup' = backup)

\* the cycle after the sleep starts with a read
SleepThenRead == (pc = "sleep" /\ pc' # "sleep") => pc' \in {"check", "stopped"}

\* C23 as stated: a failed call is not issued again in its poll cycle; the next
\* cycle reads again after a failed read, and issues again the insert that
\* failed (so a cycle that finds nothing new leaves no failed insert behind).
C23_FailedCallsRetriedNextCycle ==
    /\ [][FailedReadEndsCycle /\ SleepThenRead]_vars
    /\ []((pc = "sleep" /\ lastRead.outcome = "ok" /\ new_questions = <<>>) =>
            \A i \in 1..Len(inserts) :
                ~inserts[i].success =>
                    \E j \in (i + 1)..Len(inserts) : inserts[j].q = inserts[i].q)

\* C23 amended: a failed read is not issued again in its poll cycle and the
\* next cycle reads again; a failed insert is never issued again, neither in
\* its cycle nor in a later one.
C23_FailedInsertNeverReissued ==
    /\ [][FailedReadEndsCycle /\ SleepThenRead]_vars
    /\ [](\A i \in 1..Len(inserts) :
            ~inserts[i].success =>
                \A j \in (i + 1)..Len(inserts) : inserts[j].q # inserts[i].q)

\* a later cycle has read the sheet again after an insert failed
C23_Witness ==
    /\ pc = "sleep" /\ lastRead.outcome = "ok" /\ new_questions = <<>>
    /\ \E i \in 1..Len(inserts) : ~inserts[i].success

\* the url a search result was stored with, "" when it has none
StoredUrl(result) ==
    LET meta == result.metadata
        inner == IF "metadata" \in DOMAIN meta THEN meta.metadata ELSE meta
    IN IF "url" \in DOMAIN inner THEN inner.url ELSE ""

\* the results that have a url, in retrieval order
RECURSIVE WithUrl(_)
WithUrl(results) ==
    IF results = <<>> THEN <<>>
    ELSE (IF StoredUrl(Head(results)) = "" THEN <<>> ELSE <<Head(results)>>)
         \o WithUrl(Tail(results))

\* the url starts with a scheme
HasScheme(url) == StartsWith(url, "http://") \/ StartsWith(url, "https://")

\* C24: the urls of the document field of a persisted answer are the urls of
\* the results that have one, in retrieval order and as often as retrieved,
\* each with a scheme: a url stored without scheme is prefixed with https://.
C24_DocumentLinks ==
    (ragPc = "answered" /\ rag_return.answer \notin {RagApology, RagNoResultsAnswer}) =>
        LET linked == WithUrl(search_result.results)
            urls == DocumentUrls(rag_return.documents)
        IN /\ Len(urls) = Len(linked)
           /\ \A i \in 1..Len(urls) :
                 /\ HasScheme(urls[i])
                 /\ urls[i] = IF HasScheme(StoredUrl(linked[i])) THEN StoredUrl(linked[i])
                              ELSE "https://" \o StoredUrl(linked[i])

\* the same with the test of the code, url.startswith('http'), in place of
\* the scheme
C24_LinksByHttpPrefix ==
    (ragPc = "answered" /\ rag_return.answer \notin {RagApology, RagNoResultsAnswer}) =>
        LET linked == WithUrl(search_result.results)
            urls == DocumentUrls(rag_return.documents)
        IN /\ Len(urls) = Len(linked)
           /\ \A i \in 1..Len(urls) :
                 urls[i] = IF StartsWith(StoredUrl(linked[i]), "http") THEN StoredUrl(linked[i])
                           ELSE "https://" \o StoredUrl(linked[i])

\* C25: in every artifact the builder persists, the index holds as many
\* vectors as there are texts and metadata records, and the record at
\* position i (from 0) has the id post_i, also when process_everytime_data
\* was called more than once before the embedding.
C25_PositionalConsistency ==
    files # {} =>
        /\ builder.index = builder.texts
        /\ Len(builder.metadata) = builder.texts
        /\ \A i \in 1..Len(builder.metadata) : builder.metadata[i] = i - 1

\* the same without the ids: the three counts agree
C25_CountsAgree ==
    files # {} =>
        (builder.index = builder.texts /\ Len(builder.metadata) = builder.texts)

\* comment k of the sequence is a reply and a top-level comment precedes it
ReplyWithParent(k) ==
    /\ comments[k]["Type"] = "child"
    /\ \E j \in 1..(k - 1) : comments[j]["Type"] = "parent"

\* the author of the most recent top-level comment before comment k
ParentAuthorOf(k) ==
    LET j == CHOOSE m \in 1..(k - 1) :
                /\ comments[m]["Type"] = "parent"
                /\ \A n \in (m + 1)..(k - 1) : comments[n]["Type"] # "parent"
    IN comments[j]["Author"]

\* C26: in the extracted comment sequence every reply that follows a
\* top-level comment carries, as its parent author, the author of the most
\* recent top-level comment before it (read as the document text reads it,
\* with "" for an absent field), and the document text labels the reply
\* with this author.
C26_ReplyCarriesParentAuthor ==
    \A k \in 1..Len(comments) :
        ReplyWithParent(k) =>
            /\ DictGet(comments[k], "Parent Author", "") = ParentAuthorOf(k)
            /\ crawlPc = "done" =>
                  Contains(post_text, "\ndaetgeul" \o ToString(k)
                                      \o "(dapgeul to " \o ParentAuthorOf(k) \o "): ")

\* a reply, by the author of the first top-level comment, to the second of
\* two top-level comments by different authors
C26_Witness ==
    /\ crawlPc = "done" /\ Len(comments) = 3
    /\ comments[1]["Type"] = "parent" /\ comments[1]["Author"] = "A"
    /\ comments[2]["Type"] = "parent" /\ comments[2]["Author"] = "B"
    /\ comments[3]["Type"] = "child" /\ comments[3]["Author"] = "A"
    /\ DictGet(comments[3], "Parent Author", "") = "B"

\* C27: for each composite identity the process synthesizes at most one
\* answer and issues at most one insert, whatever the reads return.
C27_AtMostOncePerIdentity ==
    /\ \A i, j \in 1..Len(synthLog) : i # j => Pair(synthLog[i]) # Pair(synthLog[j])
    /\ \A i, j \in 1..Len(inserts) : i # j => Pair(inserts[i].q) # Pair(inserts[j].q)

\* the sheet holds the same row twice, it was answered once, and a later
\* cycle has read the sheet again
C27_Witness ==
    /\ Len(table) = 2 /\ table[1] = table[2]
    /\ Len(synthLog) = 1 /\ Len(inserts) = 1
    /\ pc = "sleep" /\ lastRead.outcome = "ok" /\ new_questions = <<>>

\* C28: when the poll cycle that discovered a question has finished without
\* cancellation, an answer for the question is recorded in the answer sheet
\* or in the local backup log.
C28_NoSilentLoss ==
    (pc = "sleep" /\ lastRead.outcome = "ok") =>
        \A k \in 1..Len(new_questions) :
            \/ \E i \in 1..Len(inserts) :
                  inserts[i].q = new_questions[k] /\ inserts[i].success
            \/ new_questions[k] \in Range(backup)

\* C29: a read that fails, or whose response has no true success flag, makes
\* get_new_questions return an empty list (it raises nothing), leaves the
\* Processed-Question Set as it was, and the poll cycle ends without any
\* synthesis, insert or backup write.
C29_FailedFetchChangesNothing ==
    [][(pc = "check" /\ lastRead'.outcome \in {"failed", "raised"}) =>
          /\ lastRead'.outcome = "failed"
          /\ new_questions' = <<>>
          /\ processed' = processed
          /\ pc' = "sleep"
          /\ synthLog' = synthLog /\ inserts' = inserts /\ backup' = backup]_vars

====
